---- MODULE Spec2Model ----
(***************************************************************************)
(* The order-creation workflow of the e-commerce service: the products and *)
(* orders collections, the POST /orders handler split at its storage calls *)
(* (lookup, pre-check, insert, conditional decrement, rollback delete,     *)
(* re-read), the GET /orders/{user_id} listing, and the product catalogue: *)
(* POST /products with the validation of its body, and GET /products.      *)
(***************************************************************************)
EXTENDS Integers, Sequences, FiniteSets, TLC

\* ---------------------------------------------------------------- bounds
NumWorkers == 2   \* concurrent POST /orders requests of Spec
NumRacers == 3    \* concurrent identical requests of SpecRace
MaxStock == 2     \* largest initial available_quantity
MaxClock == 1     \* largest value of the wall clock
MaxFaults == 1    \* storage calls the environment may fail in one behaviour
MaxLimit == 2     \* largest page size a listing asks for
MaxOffset == 1    \* largest offset a listing asks for
MaxListings == 1  \* listing requests in one behaviour
MaxSizes == 2     \* most entries in the size list of a POST /products body
MaxSkip == 2      \* largest offset a GET /products asks for

VARIABLES
    products,      \* products collection: ObjectId -> document
    orders,        \* orders collection: sequence of documents, in insertion order
    nextId,        \* next ObjectId the driver generates for an inserted document
    clock,         \* datetime.utcnow()
    faultBudget,   \* storage calls that may still raise
    initial,       \* the products collection at the start (never changes)
    pc,            \* per request: position in the handler
    req,           \* per request: the validated body (OrderIn or ProductIn)
    product,       \* per request: create_order's local `product`
    inserted,      \* per request: result.inserted_id (0: none)
    quantity_updated, \* per request: create_order's local `quantity_updated`
    atStart,       \* per request: both collections and the finished requests
                   \* when the request arrived
    outcome,       \* per request: the HTTP response
    listing,       \* the responses of the listing requests so far
    decCall        \* SpecDec: the last direct call of update_product_quantity

vars == <<products, orders, nextId, clock, faultBudget, initial, pc, req, product,
          inserted, quantity_updated, atStart, outcome, listing, decCall>>

\* ------------------------------------------------------------ ids, values
None == <<>>
Some(x) == <<x>>

Users == {"u1", "u2"}

\* Strings a client may send as user_id: a user, a user with a leading blank,
\* blanks only.
RawUsers == Users \cup {" u1", "  "}

\* Well-formed ObjectId strings. "0a" and "0A" are two spellings of the hex
\* digits of one ObjectId.
HexStrings == {"0a", "0A", "0b", "0c"}

\* Strings a client may send as product_id: a well-formed string, one with a
\* leading blank, one that is not hexadecimal.
IdStrings == HexStrings \cup {" 0a", "zz"}

\* str.strip()
Strip(s) ==
    CASE s = " u1" -> "u1"
      [] s = " 0a" -> "0a"
      [] s = "  " -> ""
      [] s = " Widget " -> "Widget"
      [] s = "N200 " -> "N200"
      [] s = "large " -> "large"
      [] OTHER -> s

\* str.lower()
Lower(s) ==
    CASE s = "Large" -> "large"
      [] s = "WID" -> "wid"
      [] OTHER -> s

\* len(s). "N200" stands for a name of 200 letters, "N201" for one of 201,
\* "N200 " for the 200 letters followed by a blank.
StrLen(s) ==
    CASE s = "" -> 0
      [] s = "  " -> 2
      [] s = "Widget" -> 6
      [] s = " Widget " -> 8
      [] s = "N200" -> 200
      [] s = "N200 " -> 201
      [] s = "N201" -> 201

\* bson.ObjectId.is_valid(s)
ObjectIdIsValid(s) == s \in HexStrings

\* bson.ObjectId(s): the id a well-formed string denotes (case-insensitive)
ObjectId(s) ==
    CASE s \in {"0a", "0A"} -> 1
      [] s = "0b" -> 2
      [] s = "0c" -> 3

\* str(ObjectId): the string of an id
ObjectIdStr(n) == <<"oid", n>>

Quantities == 0..MaxStock

\* The body of a POST /orders request as the client sends it.
RawOrders == [user_id : RawUsers, product_id : IdStrings, quantity : Quantities]

NoRequest == [user_id |-> "", product_id |-> "", quantity |-> 0]

\* utcnow(): the clock never goes back; two reads may return the same value.
Now == {t \in {clock, clock + 1} : t <= MaxClock}

\* A storage call raises (TRUE) only while the environment may still fail one.
Raises == IF faultBudget > 0 THEN {FALSE, TRUE} ELSE {FALSE}

\* ------------------------------------------------------- schema validation
\* OrderIn: min_length=1 on both ids, validate_ids strips them and rejects an
\* empty result, validate_object_id wants the stripped product_id well-formed,
\* quantity > 0.
OrderInValid(raw) ==
    /\ raw.user_id # ""
    /\ raw.product_id # ""
    /\ Strip(raw.user_id) # ""
    /\ Strip(raw.product_id) # ""
    /\ ObjectIdIsValid(Strip(raw.product_id))
    /\ raw.quantity > 0

\* The OrderIn the handler receives: the validators' return values.
OrderIn(raw) ==
    [user_id |-> Strip(raw.user_id), product_id |-> Strip(raw.product_id),
     quantity |-> raw.quantity]

\* ------------------------------------------------------------ the stores
\* products.find_one({"_id": oid})
FindProduct(prods, oid) ==
    IF oid \in DOMAIN prods THEN Some(prods[oid]) ELSE None

\* A lookup that tells the spellings of a hex digit apart.
GetProductByIdCaseSensitive(prods, product_id) ==
    IF product_id \notin {"0a", "0b", "0c"}
    THEN None
    ELSE FindProduct(prods, ObjectId(product_id))

\* ProductService.get_product_by_id: None for a malformed or unknown id.
GetProductById(prods, product_id) ==
    IF ~ObjectIdIsValid(product_id)
    THEN None
    ELSE FindProduct(prods, ObjectId(product_id))

\* A filter that leaves the stock condition out.
QuantityFloorNone(quantity_change) == 0

\* The filter of the conditional update: the least stored quantity it matches.
QuantityFloor(quantity_change) ==
    IF quantity_change < 0 THEN -quantity_change ELSE 0

\* An update that matches on the id alone and always reports success.
UpdateProductQuantityUnconditional(prods, product_id, quantity_change, now) ==
    IF ~ObjectIdIsValid(product_id)
    THEN [products |-> prods, result |-> "raise"]
    ELSE IF ObjectId(product_id) \in DOMAIN prods
         THEN [products |-> [prods EXCEPT
                                ![ObjectId(product_id)].available_quantity =
                                    @ + quantity_change,
                                ![ObjectId(product_id)].updated_at = now],
               result |-> "true"]
         ELSE [products |-> prods, result |-> "false"]

\* An update that decrements under the stock condition but leaves updated_at.
UpdateProductQuantityStale(prods, product_id, quantity_change, now) ==
    IF ~ObjectIdIsValid(product_id)
    THEN [products |-> prods, result |-> "raise"]
    ELSE IF /\ ObjectId(product_id) \in DOMAIN prods
            /\ prods[ObjectId(product_id)].available_quantity >= 0 - quantity_change
            /\ quantity_change # 0
         THEN [products |-> [prods EXCEPT
                                ![ObjectId(product_id)].available_quantity =
                                    @ + quantity_change],
               result |-> "true"]
         ELSE [products |-> prods, result |-> "false"]

\* ProductService.update_product_quantity: one update_one whose filter holds the
\* stock condition. result: "true" / "false" (modified_count > 0), or "raise"
\* when ObjectId(product_id) rejects the string.
UpdateProductQuantity(prods, product_id, quantity_change, now) ==
    IF ~ObjectIdIsValid(product_id)
    THEN [products |-> prods, result |-> "raise"]
    ELSE LET oid == ObjectId(product_id)
             matched == /\ oid \in DOMAIN prods
                        /\ prods[oid].available_quantity >= QuantityFloor(quantity_change)
             after == [prods EXCEPT
                          ![oid].available_quantity = @ + quantity_change,
                          ![oid].updated_at = now]
         IN  IF matched /\ after # prods
             THEN [products |-> after, result |-> "true"]
             ELSE [products |-> prods, result |-> "false"]

\* An order document whose _id does not come from the driver.
OrderDocFixedId(id, order, now) ==
    [_id |-> 1, user_id |-> order.user_id, product_id |-> order.product_id,
     quantity |-> order.quantity, created_at |-> now]

\* orders.insert_one(order_doc): the driver gives the document a fresh _id.
OrderDoc(id, order, now) ==
    [_id |-> id, user_id |-> order.user_id, product_id |-> order.product_id,
     quantity |-> order.quantity, created_at |-> now]

InsertOne(ords, doc) == Append(ords, doc)

\* A delete that removes nothing.
DeleteNone(ords, id) == ords

\* A delete that removes the oldest order whatever the id.
DeleteOldest(ords, id) == IF ords = <<>> THEN ords ELSE Tail(ords)

\* orders.delete_one({"_id": id})
DeleteOne(ords, id) ==
    IF \E i \in 1..Len(ords) : ords[i]._id = id
    THEN LET k == CHOOSE i \in 1..Len(ords) :
                     /\ ords[i]._id = id
                     /\ \A j \in 1..(i - 1) : ords[j]._id # id
         IN  SubSeq(ords, 1, k - 1) \o SubSeq(ords, k + 1, Len(ords))
    ELSE ords

\* orders.find_one({"_id": id})
FindOrder(ords, id) ==
    IF \E i \in 1..Len(ords) : ords[i]._id = id
    THEN Some(ords[CHOOSE i \in 1..Len(ords) :
                     /\ ords[i]._id = id
                     /\ \A j \in 1..(i - 1) : ords[j]._id # id])
    ELSE None

\* OrderOut(...) built from a stored document
OrderOut(doc) ==
    [id |-> ObjectIdStr(doc._id), user_id |-> doc.user_id,
     product_id |-> doc.product_id, quantity |-> doc.quantity,
     created_at |-> doc.created_at]

\* ------------------------------------------------------------- responses
Pending == [status |-> 0, exc |-> "", detail |-> "", body |-> None]

\* The router's except clauses: ValueError -> 400, FileNotFoundError -> 404,
\* anything else -> 500.
RouterStatus(exc) ==
    CASE exc = "ValueError" -> 400
      [] exc = "FileNotFoundError" -> 404
      [] OTHER -> 500

Failure(exc, detail) ==
    [status |-> RouterStatus(exc), exc |-> exc, detail |-> detail, body |-> None]

Created(order_out) ==
    [status |-> 201, exc |-> "", detail |-> "", body |-> Some(order_out)]

\* FastAPI answers a body that fails OrderIn before the handler runs.
Unprocessable ==
    [status |-> 422, exc |-> "RequestValidationError", detail |-> "validation",
     body |-> None]

\* create_order's `except Exception`: any storage error becomes this ValueError.
SystemFailure == Failure("ValueError", "Failed to create order due to system error")
NotFound == Failure("FileNotFoundError", "Product not found")
InsufficientStock == Failure("ValueError", "Insufficient quantity")
UpdateFailed == Failure("ValueError", "Failed to update product quantity")

\* ------------------------------------------------------------ initial state
NotStarted == [orders |-> <<>>, products |-> <<>>, done |-> {}]

ProductDoc(name, size, qty) ==
    [name |-> name, price |-> 999, size |-> size, available_quantity |-> qty,
     created_at |-> 0, updated_at |-> 0]

\* Two stored products, ObjectIds 1 and 2; ObjectId 3 names no product. The
\* first starts with any stock up to MaxStock, the second with one unit.
StoredProducts ==
    {[oid \in {1, 2} |-> IF oid = 1 THEN ProductDoc("Widget", <<"small">>, q)
                                    ELSE ProductDoc("Gadget", <<"large">>, 1)]
       : q \in 0..MaxStock}

InitStores ==
    /\ products \in StoredProducts
    /\ initial = products
    /\ orders = <<>>
    /\ nextId = 1
    /\ clock = 0
    /\ listing = <<>>
    /\ decCall = None

InitRequests(W) ==
    /\ pc = [w \in W |-> "idle"]
    /\ req = [w \in W |-> NoRequest]
    /\ product = [w \in W |-> None]
    /\ inserted = [w \in W |-> 0]
    /\ quantity_updated = [w \in W |-> "unset"]
    /\ atStart = [w \in W |-> NotStarted]
    /\ outcome = [w \in W |-> Pending]

Init ==
    /\ InitStores
    /\ faultBudget = MaxFaults
    /\ InitRequests(1..NumWorkers)

\* ---------------------------------------------------- POST /orders, by step
storeVars == <<products, orders, nextId, clock>>
localVars == <<req, product, inserted, quantity_updated, atStart>>

\* The request leaves the handler with response r.
Respond(w, r) ==
    /\ pc' = [pc EXCEPT ![w] = "done"]
    /\ outcome' = [outcome EXCEPT ![w] = r]

\* A storage call of request w raises: create_order turns it into SystemFailure.
StorageFault(w) ==
    /\ faultBudget' = faultBudget - 1
    /\ Respond(w, SystemFailure)

\* The request arrives; FastAPI validates the body against OrderIn.
Receive(w, raw) ==
    /\ pc[w] = "idle"
    /\ atStart' = [atStart EXCEPT ![w] =
                     [orders |-> orders, products |-> products,
                      done |-> {v \in DOMAIN pc : pc[v] = "done"}]]
    /\ IF OrderInValid(raw)
       THEN /\ req' = [req EXCEPT ![w] = OrderIn(raw)]
            /\ pc' = [pc EXCEPT ![w] = "lookup"]
            /\ UNCHANGED outcome
       ELSE /\ Respond(w, Unprocessable)
            /\ UNCHANGED req
    /\ UNCHANGED <<storeVars, faultBudget, initial, product, inserted,
                   quantity_updated, listing, decCall>>

\* product = await get_product_by_id(order.product_id)
Lookup(w, raises) ==
    /\ pc[w] = "lookup"
    /\ IF raises
       THEN /\ StorageFault(w)
            /\ UNCHANGED product
       ELSE /\ product' = [product EXCEPT ![w] = GetProductById(products, req[w].product_id)]
            /\ pc' = [pc EXCEPT ![w] = "check"]
            /\ UNCHANGED <<outcome, faultBudget>>
    /\ UNCHANGED <<storeVars, initial, req, inserted, quantity_updated,
                   atStart, listing, decCall>>

\* A pre-check that refuses a request for all the stock there is (<= for <).
PreCheckStrict(w) ==
    /\ pc[w] = "check"
    /\ IF product[w] = None
       THEN Respond(w, NotFound)
       ELSE IF product[w][1].available_quantity <= req[w].quantity
            THEN Respond(w, InsufficientStock)
            ELSE /\ pc' = [pc EXCEPT ![w] = "insert"]
                 /\ UNCHANGED outcome
    /\ UNCHANGED <<storeVars, faultBudget, initial, localVars, listing, decCall>>

\* A pre-check without the stock comparison.
PreCheckNoStock(w) ==
    /\ pc[w] = "check"
    /\ IF product[w] = None
       THEN Respond(w, NotFound)
       ELSE /\ pc' = [pc EXCEPT ![w] = "insert"]
            /\ UNCHANGED outcome
    /\ UNCHANGED <<storeVars, faultBudget, initial, localVars, listing, decCall>>

\* A pre-check without `if not product`: subscripting None raises a TypeError,
\* which create_order turns into the system-error ValueError.
PreCheckNoExistence(w) ==
    /\ pc[w] = "check"
    /\ IF product[w] = None
       THEN Respond(w, SystemFailure)
       ELSE IF product[w][1].available_quantity < req[w].quantity
            THEN Respond(w, InsufficientStock)
            ELSE /\ pc' = [pc EXCEPT ![w] = "insert"]
                 /\ UNCHANGED outcome
    /\ UNCHANGED <<storeVars, faultBudget, initial, localVars, listing, decCall>>

\* if not product: raise FileNotFoundError;
\* if product["available_quantity"] < order.quantity: raise ValueError
PreCheck(w) ==
    /\ pc[w] = "check"
    /\ IF product[w] = None
       THEN Respond(w, NotFound)
       ELSE IF product[w][1].available_quantity < req[w].quantity
            THEN Respond(w, InsufficientStock)
            ELSE /\ pc' = [pc EXCEPT ![w] = "insert"]
                 /\ UNCHANGED outcome
    /\ UNCHANGED <<storeVars, faultBudget, initial, localVars, listing, decCall>>

\* An insert whose failure is swallowed: the workflow carries on to the decrement.
InsertIgnoresFault(w, now, raises) ==
    /\ pc[w] = "insert"
    /\ clock' = now
    /\ IF raises
       THEN /\ faultBudget' = faultBudget - 1
            /\ pc' = [pc EXCEPT ![w] = "decrement"]
            /\ UNCHANGED <<orders, nextId, inserted, outcome>>
       ELSE /\ orders' = InsertOne(orders, OrderDoc(nextId, req[w], now))
            /\ nextId' = nextId + 1
            /\ inserted' = [inserted EXCEPT ![w] = nextId]
            /\ pc' = [pc EXCEPT ![w] = "decrement"]
            /\ UNCHANGED <<outcome, faultBudget>>
    /\ UNCHANGED <<products, initial, req, product, quantity_updated,
                   atStart, listing, decCall>>

\* order_doc = {..., "created_at": utcnow()}; result = await insert_one(order_doc)
\* (an insert_one that returns always carries an inserted_id).
Insert(w, now, raises) ==
    /\ pc[w] = "insert"
    /\ clock' = now
    /\ IF raises
       THEN /\ StorageFault(w)
            /\ UNCHANGED <<orders, nextId, inserted>>
       ELSE /\ orders' = InsertOne(orders, OrderDoc(nextId, req[w], now))
            /\ nextId' = nextId + 1
            /\ inserted' = [inserted EXCEPT ![w] = nextId]
            /\ pc' = [pc EXCEPT ![w] = "decrement"]
            /\ UNCHANGED <<outcome, faultBudget>>
    /\ UNCHANGED <<products, initial, req, product, quantity_updated,
                   atStart, listing, decCall>>

\* quantity_updated = await update_product_quantity(product_id, -quantity)
Decrement(w, now, raises) ==
    /\ pc[w] = "decrement"
    /\ clock' = now
    /\ IF raises
       THEN /\ StorageFault(w)
            /\ UNCHANGED <<products, quantity_updated>>
       ELSE LET r == UpdateProductQuantity(products, req[w].product_id,
                                           -req[w].quantity, now)
            IN  /\ products' = r.products
                /\ UNCHANGED faultBudget
                /\ IF r.result = "raise"
                   THEN /\ Respond(w, SystemFailure)
                        /\ UNCHANGED quantity_updated
                   ELSE /\ quantity_updated' =
                               [quantity_updated EXCEPT ![w] = r.result]
                        /\ pc' = [pc EXCEPT ![w] =
                                     IF r.result = "true" THEN "reread"
                                                          ELSE "rollback"]
                        /\ UNCHANGED outcome
    /\ UNCHANGED <<orders, nextId, initial, req, product, inserted,
                   atStart, listing, decCall>>

\* A failed decrement reported without the compensating delete.
RollbackNoDelete(w, raises) ==
    /\ pc[w] = "rollback"
    /\ ~raises
    /\ Respond(w, UpdateFailed)
    /\ UNCHANGED <<storeVars, faultBudget, initial, localVars, listing, decCall>>

\* A rollback that swallows a failure of the delete and carries on to the re-read.
RollbackIgnoresFault(w, raises) ==
    /\ pc[w] = "rollback"
    /\ IF raises
       THEN /\ faultBudget' = faultBudget - 1
            /\ pc' = [pc EXCEPT ![w] = "reread"]
            /\ UNCHANGED <<orders, outcome>>
       ELSE /\ orders' = DeleteOne(orders, inserted[w])
            /\ Respond(w, UpdateFailed)
            /\ UNCHANGED faultBudget
    /\ UNCHANGED <<products, nextId, clock, initial, localVars, listing, decCall>>

\* A rollback that also gives the quantity of the order back to the product.
RollbackRestocks(w, raises) ==
    /\ pc[w] = "rollback"
    /\ IF raises
       THEN /\ StorageFault(w)
            /\ UNCHANGED <<orders, products>>
       ELSE /\ orders' = DeleteOne(orders, inserted[w])
            /\ products' = [products EXCEPT
                               ![ObjectId(req[w].product_id)].available_quantity =
                                   @ + req[w].quantity]
            /\ Respond(w, UpdateFailed)
            /\ UNCHANGED faultBudget
    /\ UNCHANGED <<nextId, clock, initial, localVars, listing, decCall>>

\* A rollback that tries the decrement again instead of deleting the order.
RollbackRetries(w, raises) ==
    /\ pc[w] = "rollback"
    /\ IF raises
       THEN /\ StorageFault(w)
            /\ UNCHANGED quantity_updated
       ELSE /\ pc' = [pc EXCEPT ![w] = "decrement"]
            /\ quantity_updated' = [quantity_updated EXCEPT ![w] = "unset"]
            /\ UNCHANGED <<outcome, faultBudget>>
    /\ UNCHANGED <<storeVars, initial, req, product, inserted, atStart,
                   listing, decCall>>

\* if not quantity_updated: await delete_one({"_id": inserted_id}); raise ValueError
Rollback(w, raises) ==
    /\ pc[w] = "rollback"
    /\ IF raises
       THEN /\ StorageFault(w)
            /\ UNCHANGED orders
       ELSE /\ orders' = DeleteOne(orders, inserted[w])
            /\ Respond(w, UpdateFailed)
            /\ UNCHANGED faultBudget
    /\ UNCHANGED <<products, nextId, clock, initial, localVars, listing, decCall>>

\* A response built from the request and the clock instead of the stored order.
ReReadFromRequest(w, raises) ==
    /\ pc[w] = "reread"
    /\ IF raises
       THEN StorageFault(w)
       ELSE /\ Respond(w, Created(OrderOut(OrderDoc(inserted[w], req[w], clock))))
            /\ UNCHANGED faultBudget
    /\ UNCHANGED <<storeVars, initial, localVars, listing, decCall>>

\* created_order = await find_one({"_id": inserted_id}); return OrderOut(...)
ReRead(w, raises) ==
    /\ pc[w] = "reread"
    /\ IF raises
       THEN StorageFault(w)
       ELSE LET created_order == FindOrder(orders, inserted[w])
            IN  /\ Respond(w, IF created_order = None
                              THEN SystemFailure
                              ELSE Created(OrderOut(created_order[1])))
                /\ UNCHANGED faultBudget
    /\ UNCHANGED <<storeVars, initial, localVars, listing, decCall>>

Step(w) ==
    \/ \E raises \in Raises : Lookup(w, raises)
    \/ PreCheck(w)
    \/ \E now \in Now, raises \in Raises : Insert(w, now, raises)
    \/ \E now \in Now, raises \in Raises : Decrement(w, now, raises)
    \/ \E raises \in Raises : Rollback(w, raises)
    \/ \E raises \in Raises : ReRead(w, raises)

Next ==
    \/ \E w \in DOMAIN pc, raw \in RawOrders : Receive(w, raw)
    \/ \E w \in DOMAIN pc : Step(w)

Spec == Init /\ [][Next]_vars

\* Every storage call a handler awaits returns or raises, so a request that has
\* a step to take takes it.
SpecLive == Init /\ [][Next]_vars /\ \A w \in 1..NumWorkers : WF_vars(Step(w))

\* ------------------------------------------------- GET /orders/{user_id}
\* The orders of one user, in collection order.
OrdersOf(ords, user_id) ==
    LET OfUser(o) == o.user_id = user_id
    IN  SelectSeq(ords, OfUser)

\* cursor.sort("created_at", -1): every arrangement of s with created_at
\* descending (the store orders documents of equal created_at as it likes).
SortedByCreatedAtDesc(s) ==
    LET n == Len(s)
        perms == {p \in [1..n -> 1..n] : \A i, j \in 1..n : i # j => p[i] # p[j]}
    IN  {[i \in 1..n |-> s[p[i]]] : p \in
            {q \in perms : \A i, j \in 1..n :
                               i < j => s[q[i]].created_at >= s[q[j]].created_at}}

\* cursor.skip(offset).limit(limit)
SkipLimit(s, offset, limit) ==
    SubSeq(s, offset + 1, IF offset + limit < Len(s) THEN offset + limit ELSE Len(s))

\* A listing that skips and limits in collection order and sorts the page.
ListUserOrdersPageFirst(ords, user_id, limit, offset) ==
    {[i \in 1..Len(page) |-> OrderOut(page[i])] :
        page \in SortedByCreatedAtDesc(
                     SkipLimit(OrdersOf(ords, user_id), offset, limit))}

\* OrderService.list_user_orders: the responses the store can produce.
ListUserOrders(ords, user_id, limit, offset) ==
    {[i \in 1..Len(page) |-> OrderOut(page[i])] :
        page \in {SkipLimit(s, offset, limit) :
                     s \in SortedByCreatedAtDesc(OrdersOf(ords, user_id))}}

\* A response of the listing handler. `done` records the requests that had
\* terminated when the listing ran.
ListResponse(status, user_id, limit, offset, result) ==
    [status |-> status, user_id |-> user_id, limit |-> limit, offset |-> offset,
     result |-> result, done |-> {w \in DOMAIN pc : pc[w] = "done"}]

\* The listing handler: one find on the orders collection; 500 when it raises.
ListOrders(user_id, limit, offset, raises) ==
    /\ Len(listing) < MaxListings
    /\ IF raises
       THEN /\ faultBudget' = faultBudget - 1
            /\ listing' = Append(listing,
                                 ListResponse(500, user_id, limit, offset, <<>>))
       ELSE /\ \E result \in ListUserOrders(orders, user_id, limit, offset) :
                 listing' = Append(listing,
                                   ListResponse(200, user_id, limit, offset, result))
            /\ UNCHANGED faultBudget
    /\ UNCHANGED <<storeVars, initial, pc, outcome, localVars, decCall>>

\* The orders placed while listings run: any user, any quantity, one product.
ListRawOrders == {raw \in RawOrders : raw.product_id = "0a" /\ raw.quantity > 0}

NextList ==
    \/ \E w \in DOMAIN pc, raw \in ListRawOrders : Receive(w, raw)
    \/ \E w \in DOMAIN pc : Step(w)
    \/ \E user_id \in Users, limit \in 1..MaxLimit, offset \in 0..MaxOffset,
          raises \in Raises : ListOrders(user_id, limit, offset, raises)

SpecList == Init /\ [][NextList]_vars

\* ------------------------------------- the race: identical concurrent orders
\* NumRacers requests for the same quantity of the first product, no storage
\* fault.
RaceOrders == [user_id : {"u1"}, product_id : {"0a"}, quantity : 1..(MaxStock + 1)]


InitRace ==
    /\ InitStores
    /\ faultBudget = 0
    /\ pc = [w \in 1..NumRacers |-> "idle"]
    /\ req \in {[w \in 1..NumRacers |-> raw] : raw \in RaceOrders}
    /\ product = [w \in 1..NumRacers |-> None]
    /\ inserted = [w \in 1..NumRacers |-> 0]
    /\ quantity_updated = [w \in 1..NumRacers |-> "unset"]
    /\ atStart = [w \in 1..NumRacers |-> NotStarted]
    /\ outcome = [w \in 1..NumRacers |-> Pending]

NextRace ==
    \/ \E w \in DOMAIN pc : Receive(w, req[w])
    \/ \E w \in DOMAIN pc : Step(w)

SpecRace == InitRace /\ [][NextRace]_vars

\* ------------------------- update_product_quantity called on its own
\* Any id string, any change from -(MaxStock + 1) to 1; restocking stops once a
\* product holds more than MaxStock.
Changes == (0 - (MaxStock + 1))..1

CallUpdateProductQuantity(product_id, quantity_change, now) ==
    /\ quantity_change > 0 =>
           \A oid \in DOMAIN products : products[oid].available_quantity <= MaxStock
    /\ LET r == UpdateProductQuantity(products, product_id, quantity_change, now)
       IN  /\ products' = r.products
           /\ decCall' = Some([product_id |-> product_id,
                               quantity_change |-> quantity_change,
                               now |-> now, result |-> r.result,
                               before |-> products])
    /\ clock' = now
    /\ UNCHANGED <<orders, nextId, faultBudget, initial, pc, outcome, localVars,
                   listing>>

InitDec ==
    /\ InitStores
    /\ faultBudget = 0
    /\ InitRequests({})

NextDec ==
    \E product_id \in IdStrings, quantity_change \in Changes, now \in Now :
        CallUpdateProductQuantity(product_id, quantity_change, now)

SpecDec == InitDec /\ [][NextDec]_vars

\* ------------------------------- get_product_by_id called on its own
\* Any id string, between direct calls of update_product_quantity. A malformed
\* id returns before the storage call; the find_one of a well-formed id may
\* raise, and get_product_by_id re-raises.
CallGetProductById(product_id, raises) ==
    /\ Len(listing) < MaxListings
    /\ raises => ObjectIdIsValid(product_id)
    /\ listing' = Append(listing,
                         [product_id |-> product_id, raised |-> raises,
                          result |-> IF raises THEN None
                                     ELSE GetProductById(products, product_id)])
    /\ faultBudget' = IF raises THEN faultBudget - 1 ELSE faultBudget
    /\ UNCHANGED <<storeVars, initial, pc, outcome, localVars, decCall>>

InitLookup ==
    /\ InitStores
    /\ faultBudget = MaxFaults
    /\ InitRequests({})

NextLookup ==
    \/ \E product_id \in IdStrings, quantity_change \in Changes, now \in Now :
           CallUpdateProductQuantity(product_id, quantity_change, now)
    \/ \E product_id \in IdStrings, raises \in Raises :
           CallGetProductById(product_id, raises)

SpecLookup == InitLookup /\ [][NextLookup]_vars

\* ============================================================ POST /products
MinNameLength == 1
MaxNameLength == 200

\* Strings a client may send as name: empty, blanks only, a name between
\* blanks, names of 200 and 201 characters, 200 letters and a trailing blank.
NameStrings == {"", "  ", " Widget ", "N200", "N200 ", "N201"}

\* Strings a client may send as one size: empty, blanks only, capitalised,
\* with a trailing blank.
SizeStrings == {"", "  ", "Large", "large "}

SizeLists == UNION {[1..n -> SizeStrings] : n \in 0..MaxSizes}

\* Prices in hundredths: zero and 9.99.
Prices == {0, 999}

ProductQuantities == (0 - 1)..1

\* The body of a POST /products request as the client sends it.
RawProducts ==
    [name : NameStrings, price : Prices, size : SizeLists,
     available_quantity : ProductQuantities]

\* ProductIn: the Field constraints on the values as sent (length of name,
\* price > 0, min_items=1, available_quantity >= 0), then validate_sizes and
\* validate_name reject an entry or a name that is empty once stripped.
ProductInValid(raw) ==
    /\ StrLen(raw.name) >= MinNameLength
    /\ StrLen(raw.name) <= MaxNameLength
    /\ Strip(raw.name) # ""
    /\ raw.price > 0
    /\ Len(raw.size) >= 1
    /\ \A i \in 1..Len(raw.size) : Strip(raw.size[i]) # ""
    /\ raw.available_quantity >= 0

\* validate_sizes keeping the sizes as sent.
ValidateSizesAsSent(v) == v

\* validate_sizes appending a normalised size only when it is not there yet.
ValidateSizesDistinct(v) ==
    LET n == [i \in 1..Len(v) |-> Lower(Strip(v[i]))]
        first == {i \in 1..Len(v) : \A j \in 1..(i - 1) : n[j] # n[i]}
    IN  [k \in 1..Cardinality(first) |->
            n[CHOOSE i \in first : Cardinality({j \in first : j <= i}) = k]]

\* validate_sizes: every entry stripped, then lower-cased, appended in order.
ValidateSizes(v) == [i \in 1..Len(v) |-> Lower(Strip(v[i]))]

\* The ProductIn the handler receives: the validators' return values.
ProductIn(raw) ==
    [name |-> Strip(raw.name), price |-> raw.price,
     size |-> ValidateSizes(raw.size),
     available_quantity |-> raw.available_quantity]

\* product_doc of create_product (both timestamps read the same clock value).
NewProductDoc(product_in, now) ==
    [name |-> product_in.name, price |-> product_in.price,
     size |-> product_in.size,
     available_quantity |-> product_in.available_quantity,
     created_at |-> now, updated_at |-> now]

\* ProductOut(...) built from a stored document
ProductOut(oid, doc) ==
    [id |-> ObjectIdStr(oid), name |-> doc.name, price |-> doc.price,
     size |-> doc.size, available_quantity |-> doc.available_quantity]

\* The products router's except clauses: ValueError -> 400, anything else 500.
ProductRouterStatus(exc) == IF exc = "ValueError" THEN 400 ELSE 500

\* create_product re-raises a storage error as it is.
ProductFailure ==
    [status |-> ProductRouterStatus("Exception"), exc |-> "Exception",
     detail |-> "Failed to create product", body |-> None]

\* The request arrives; FastAPI validates the body against ProductIn.
ReceiveProduct(w, raw) ==
    /\ pc[w] = "idle"
    /\ IF ProductInValid(raw)
       THEN /\ req' = [req EXCEPT ![w] = ProductIn(raw)]
            /\ atStart' = [atStart EXCEPT ![w] =
                             [orders |-> orders, products |-> products,
                              done |-> {v \in DOMAIN pc : pc[v] = "done"},
                              raw |-> raw]]
            /\ pc' = [pc EXCEPT ![w] = "insert_product"]
            /\ UNCHANGED outcome
       ELSE /\ Respond(w, Unprocessable)
            /\ atStart' = [atStart EXCEPT ![w] =
                             [orders |-> orders, products |-> products,
                              done |-> {v \in DOMAIN pc : pc[v] = "done"}]]
            /\ UNCHANGED req
    /\ UNCHANGED <<storeVars, faultBudget, initial, product, inserted,
                   quantity_updated, listing, decCall>>

\* result = await insert_one(product_doc): the driver gives the document a
\* fresh _id.
InsertProduct(w, now, raises) ==
    /\ pc[w] = "insert_product"
    /\ clock' = now
    /\ IF raises
       THEN /\ faultBudget' = faultBudget - 1
            /\ Respond(w, ProductFailure)
            /\ UNCHANGED <<products, nextId, inserted>>
       ELSE /\ products' = products @@ (nextId :> NewProductDoc(req[w], now))
            /\ nextId' = nextId + 1
            /\ inserted' = [inserted EXCEPT ![w] = nextId]
            /\ pc' = [pc EXCEPT ![w] = "find_product"]
            /\ UNCHANGED <<outcome, faultBudget>>
    /\ UNCHANGED <<orders, initial, req, product, quantity_updated,
                   atStart, listing, decCall>>

\* created_product = await find_one({"_id": inserted_id}); return ProductOut(...)
\* (subscripting a None created_product raises a TypeError: 500).
FindCreated(w, raises) ==
    /\ pc[w] = "find_product"
    /\ IF raises
       THEN /\ faultBudget' = faultBudget - 1
            /\ Respond(w, ProductFailure)
            /\ UNCHANGED product
       ELSE LET created_product == FindProduct(products, inserted[w])
            IN  /\ product' = [product EXCEPT ![w] = created_product]
                /\ Respond(w, IF created_product = None
                              THEN ProductFailure
                              ELSE Created(ProductOut(inserted[w],
                                                      created_product[1])))
                /\ UNCHANGED faultBudget
    /\ UNCHANGED <<storeVars, initial, req, inserted, quantity_updated,
                   atStart, listing, decCall>>

StepProduct(w) ==
    \/ \E now \in Now, raises \in Raises : InsertProduct(w, now, raises)
    \/ \E raises \in Raises : FindCreated(w, raises)

\* ============================================================= GET /products
\* Values of the query parameter `name`: absent ("" behaves the same: `if
\* name_filter` is false for both), part of two names, part of one name in
\* capitals.
NameFilters == {"", "dget", "WID"}

\* Values of the query parameter `size`: absent, capitalised, plain.
SizeFilters == {"", "Large", "small"}

\* {"$regex": pattern, "$options": "i"}: pattern occurs in name, letter case
\* ignored.
RegexSearchI(pattern, name) ==
    CASE pattern = "dget" -> name \in {"Widget", "Gadget"}
      [] pattern = "WID" -> name = "Widget"
      [] OTHER -> FALSE

\* A query that passes the size filter as the client wrote it.
MatchesSizeAsSent(doc, name_filter, size_filter) ==
    /\ name_filter # "" => RegexSearchI(name_filter, doc.name)
    /\ size_filter # "" =>
           \E i \in 1..Len(doc.size) : doc.size[i] = size_filter

\* The query of list_products applied to one document.
Matches(doc, name_filter, size_filter) ==
    /\ name_filter # "" => RegexSearchI(name_filter, doc.name)
    /\ size_filter # "" =>
           \E i \in 1..Len(doc.size) : doc.size[i] = Lower(size_filter)

\* cursor.sort("_id", 1): the ids in ascending order.
RECURSIVE SortById(_)
SortById(S) ==
    IF S = {} THEN <<>>
    ELSE LET m == CHOOSE x \in S : \A y \in S : x <= y
         IN  <<m>> \o SortById(S \ {m})

\* skip and limit applied before the sort, to a cursor that yields the newest
\* document first; the page is sorted afterwards.
ListProductsPageFirst(prods, name_filter, size_filter, limit, offset) ==
    LET found == {oid \in DOMAIN prods :
                     Matches(prods[oid], name_filter, size_filter)}
        asc == SortById(found)
        natural == [i \in 1..Len(asc) |-> asc[Len(asc) + 1 - i]]
        cut == SkipLimit(natural, offset, limit)
        page == SortById({cut[i] : i \in 1..Len(cut)})
    IN  [i \in 1..Len(page) |-> ProductOut(page[i], prods[page[i]])]

\* ProductService.list_products: find(query), sorted by _id, then skip and
\* limit (the cursor applies them in that order however the calls are written).
ListProducts(prods, name_filter, size_filter, limit, offset) ==
    LET found == {oid \in DOMAIN prods :
                     Matches(prods[oid], name_filter, size_filter)}
        page == SkipLimit(SortById(found), offset, limit)
    IN  [i \in 1..Len(page) |-> ProductOut(page[i], prods[page[i]])]

\* A response of GET /products. `store` records the collection the listing
\* read.
ProductListResponse(status, name, size, limit, offset, result) ==
    [status |-> status, name |-> name, size |-> size, limit |-> limit,
     offset |-> offset, result |-> result, store |-> products]

\* The handler of GET /products: one find on the products collection; 500 when
\* it raises.
GetProducts(name, size, limit, offset, raises) ==
    /\ Len(listing) < MaxListings
    /\ IF raises
       THEN /\ faultBudget' = faultBudget - 1
            /\ listing' = Append(listing, ProductListResponse(
                                              500, name, size, limit, offset, <<>>))
       ELSE /\ listing' = Append(listing, ProductListResponse(
                                              200, name, size, limit, offset,
                                              ListProducts(products, name, size,
                                                           limit, offset)))
            /\ UNCHANGED faultBudget
    /\ UNCHANGED <<storeVars, initial, pc, outcome, localVars, decCall>>

\* The catalogue: the seeded products with the first at full stock, the driver's
\* next ObjectId after theirs, NumWorkers POST /products requests.
InitProducts ==
    /\ products \in {p \in StoredProducts : p[1].available_quantity = MaxStock}
    /\ initial = products
    /\ orders = <<>>
    /\ nextId = Cardinality(DOMAIN products) + 1
    /\ clock = 0
    /\ listing = <<>>
    /\ decCall = None
    /\ faultBudget = MaxFaults
    /\ InitRequests(1..NumWorkers)

\* Product creations alone: any body.
NextProducts ==
    \/ \E w \in DOMAIN pc, raw \in RawProducts : ReceiveProduct(w, raw)
    \/ \E w \in DOMAIN pc : StepProduct(w)

SpecProducts == InitProducts /\ [][NextProducts]_vars

\* The products created while listings run: any name, one size, in stock.
CatalogRawProducts ==
    {raw \in RawProducts : /\ raw.size = <<"Large">>
                           /\ raw.price > 0
                           /\ raw.available_quantity = 1}

NextCatalog ==
    \/ \E w \in DOMAIN pc, raw \in CatalogRawProducts : ReceiveProduct(w, raw)
    \/ \E w \in DOMAIN pc : StepProduct(w)
    \/ \E name \in NameFilters, size \in SizeFilters, limit \in 1..MaxLimit,
          offset \in 0..MaxSkip, raises \in Raises :
           GetProducts(name, size, limit, offset, raises)

SpecCatalog == InitProducts /\ [][NextCatalog]_vars

\* --------------------------- orders placed among reads of both collections
\* Orders of one user for either stored product or an unknown one, while one
\* read runs: an order listing, a product listing or a product lookup.
FrameRawOrders ==
    {raw \in RawOrders : /\ raw.user_id = "u1"
                         /\ raw.product_id \in {"0a", "0b", "0c"}
                         /\ raw.quantity > 0}

NextFrame ==
    \/ \E w \in DOMAIN pc, raw \in FrameRawOrders : Receive(w, raw)
    \/ \E w \in DOMAIN pc : Step(w)
    \/ \E raises \in Raises : ListOrders("u1", MaxLimit, 0, raises)
    \/ \E raises \in Raises : GetProducts("", "", MaxLimit, 0, raises)
    \/ \E raises \in Raises : CallGetProductById("0a", raises)

SpecFrame == Init /\ [][NextFrame]_vars

\* =================================================================== claims
Requests == DOMAIN pc
Done(w) == pc[w] = "done"
Succeeded(w) == Done(w) /\ outcome[w].status = 201
Placed(w) == req[w] # NoRequest
Target(w) == ObjectId(req[w].product_id)
Stock(oid) == products[oid].available_quantity

\* The request ran with no other request in flight: every other request is
\* still to arrive or had terminated when this one arrived.
Solo(w) == \A v \in Requests \ {w} : pc[v] = "idle" \/ v \in atStart[w].done

\* No storage call has raised so far.
NoFault == faultBudget = MaxFaults

RECURSIVE SumQuantity(_)
SumQuantity(S) ==
    IF S = {} THEN 0
    ELSE LET w == CHOOSE x \in S : TRUE
         IN  req[w].quantity + SumQuantity(S \ {w})

\* The requests whose decrement of product oid succeeded.
Decremented(oid) ==
    {w \in Requests : Placed(w) /\ Target(w) = oid /\ quantity_updated[w] = "true"}

\* C1: in every reachable state, under every interleaving of the steps of
\* concurrent create_order requests (storage faults included), every product's
\* available_quantity is >= 0.
C1_StockNeverNegative == \A oid \in DOMAIN products : Stock(oid) >= 0

\* Two requests for the same product, one decremented and the other was refused
\* by the conditional update because the stock left is too small.
C1_Witness ==
    \E w, v \in Requests :
        /\ w # v /\ Placed(w) /\ Placed(v) /\ Target(w) = Target(v)
        /\ quantity_updated[w] = "true"
        /\ quantity_updated[v] = "false"
        /\ Stock(Target(v)) < req[v].quantity

\* C2: K identical concurrent requests for quantity q of a product holding N,
\* K*q > N, no storage fault: once all have terminated exactly N \div q returned
\* 201, every other returned InsufficientStock or "Failed to update product
\* quantity", and the stock left is N - (N \div q)*q.
C2_RaceOutcome ==
    LET N == initial[1].available_quantity
        q == req[1].quantity
        K == Cardinality(Requests)
        winners == {w \in Requests : Succeeded(w)}
    IN  ((\A w \in Requests : Done(w)) /\ K * q > N) =>
            /\ Cardinality(winners) = N \div q
            /\ \A w \in Requests \ winners :
                   outcome[w] \in {InsufficientStock, UpdateFailed}
            /\ Stock(1) = N - (N \div q) * q

\* All racers terminated: one won, one lost at the pre-check, one lost at the
\* conditional update.
C2_Witness ==
    /\ \A w \in Requests : Done(w)
    /\ \E w \in Requests : Succeeded(w)
    /\ \E w \in Requests : outcome[w] = InsufficientStock
    /\ \E w \in Requests : outcome[w] = UpdateFailed

\* C3: no overselling: for every product, the quantities of the requests that
\* returned 201 for it never add up to more than its stock at the start.
C3_NoOverselling ==
    \A oid \in DOMAIN initial :
        SumQuantity({w \in Requests : Succeeded(w) /\ Target(w) = oid})
            <= initial[oid].available_quantity

\* Two requests passed the pre-check against the same stock value, too small
\* for both; one returned 201 and the other was rolled back.
C3_Witness ==
    \E w, v \in Requests :
        /\ w # v /\ Succeeded(w) /\ Done(v)
        /\ product[w] # None /\ product[v] = product[w]
        /\ inserted[v] # 0
        /\ req[w].quantity + req[v].quantity > product[w][1].available_quantity
        /\ outcome[v] = UpdateFailed

\* The ids of the orders a listing response holds.
ListedIds(response) == {response.result[k].id : k \in 1..Len(response.result)}

\* The decrement of request w returned false and its compensating delete went
\* through.
RolledBack(w) ==
    Done(w) /\ quantity_updated[w] = "false" /\ outcome[w] = UpdateFailed

\* C4: if the decrement of a request failed after its insert and the
\* compensating delete succeeded, no listing for that user that starts after the
\* request terminated holds that order.
C4_RolledBackOrderNotListed ==
    \A i \in 1..Len(listing) :
        \A w \in listing[i].done :
            (RolledBack(w) /\ listing[i].status = 200
                /\ listing[i].user_id = req[w].user_id)
                => ObjectIdStr(inserted[w]) \notin ListedIds(listing[i])

\* A listing for the user of a rolled-back request, taken after that request
\* terminated, that holds another order of the same user.
C4_Witness ==
    \E i \in 1..Len(listing) :
        \E w \in listing[i].done :
            /\ RolledBack(w)
            /\ listing[i].status = 200
            /\ listing[i].user_id = req[w].user_id
            /\ listing[i].result # <<>>

IsOrderOf(doc, w) ==
    /\ doc._id = inserted[w]
    /\ doc.user_id = req[w].user_id
    /\ doc.product_id = req[w].product_id
    /\ doc.quantity = req[w].quantity

\* C6: a request for quantity q of a stored product holding a >= q, run with no
\* other request in flight and no storage fault, is answered 201, adds exactly one
\* order to the collection, and leaves the product with a - q.
C6_SoloOrderSucceeds ==
    \A w \in Requests :
        (/\ Done(w) /\ Placed(w) /\ Solo(w) /\ NoFault
         /\ Target(w) \in DOMAIN atStart[w].products
         /\ atStart[w].products[Target(w)].available_quantity >= req[w].quantity)
        => /\ outcome[w].status = 201
           /\ Len(orders) = Len(atStart[w].orders) + 1
           /\ SubSeq(orders, 1, Len(atStart[w].orders)) = atStart[w].orders
           /\ IsOrderOf(orders[Len(orders)], w)
           /\ Stock(Target(w))
                  = atStart[w].products[Target(w)].available_quantity - req[w].quantity
           /\ \A oid \in DOMAIN products \ {Target(w)} :
                  products[oid] = atStart[w].products[oid]

\* A request that ran alone after an earlier order had been placed and took part
\* of the stock that was left.
C6_Witness ==
    \E w \in Requests :
        /\ Succeeded(w) /\ Solo(w) /\ NoFault
        /\ atStart[w].orders # <<>>
        /\ Stock(Target(w)) = initial[Target(w)].available_quantity - 2

\* C7: a request whose quantity exceeds the product's available_quantity at
\* lookup is answered 400 InsufficientStock; it inserts no order and attempts no
\* decrement, so that when it ran alone both collections are as it found them.
C7_InsufficientStockRejected ==
    \A w \in Requests :
        (/\ Done(w) /\ product[w] # None
         /\ product[w][1].available_quantity < req[w].quantity)
        => /\ outcome[w] = InsufficientStock
           /\ outcome[w].status = 400
           /\ inserted[w] = 0
           /\ quantity_updated[w] = "unset"
           /\ Solo(w) => orders = atStart[w].orders /\ products = atStart[w].products

\* After an order took part of the stock, a second request alone asks for more
\* than is left and is refused.
C7_Witness ==
    \E w \in Requests :
        /\ Done(w) /\ Solo(w) /\ outcome[w] = InsufficientStock
        /\ orders # <<>>
        /\ product[w][1].available_quantity > 0
        /\ Stock(Target(w)) = product[w][1].available_quantity

\* C8: a request whose product_id is well-formed but names no stored product is
\* answered 404 NotFound when its lookup does not raise; in every case it inserts
\* no order and attempts no decrement, so that when it ran alone both collections
\* are as it found them.
C8_UnknownProductNotFound ==
    \A w \in Requests :
        (Done(w) /\ Placed(w) /\ Target(w) \notin DOMAIN products)
        => /\ outcome[w] \in {NotFound, SystemFailure}
           /\ NoFault => outcome[w] = NotFound /\ outcome[w].status = 404
           /\ inserted[w] = 0
           /\ quantity_updated[w] = "unset"
           /\ Solo(w) => orders = atStart[w].orders /\ products = atStart[w].products

\* A request for an unknown product answered 404 while an order is stored.
C8_Witness ==
    \E w \in Requests :
        /\ Done(w) /\ Placed(w) /\ Target(w) \notin DOMAIN products
        /\ outcome[w].status = 404
        /\ orders # <<>>

\* C9: create_order is not idempotent: persisted orders have pairwise distinct
\* ids, and two requests with identical user_id, product_id and quantity that both
\* returned 201 are two stored orders with different ids and two decrements: the
\* stock is the initial stock less the quantity of every successful decrement.
C9_NotIdempotent ==
    /\ \A i, j \in 1..Len(orders) : i # j => orders[i]._id # orders[j]._id
    /\ \A w, v \in Requests :
           (w # v /\ Succeeded(w) /\ Succeeded(v) /\ req[w] = req[v])
           => /\ outcome[w].body[1].id # outcome[v].body[1].id
              /\ inserted[w] # inserted[v]
              /\ FindOrder(orders, inserted[w]) # None
              /\ FindOrder(orders, inserted[v]) # None
              /\ {w, v} \subseteq Decremented(Target(w))
              /\ Stock(Target(w)) = initial[Target(w)].available_quantity
                                       - SumQuantity(Decremented(Target(w)))
              /\ Stock(Target(w)) <= initial[Target(w)].available_quantity
                                        - 2 * req[w].quantity

\* Two identical requests both answered 201.
C9_Witness ==
    \E w, v \in Requests :
        /\ w # v /\ Succeeded(w) /\ Succeeded(v) /\ req[w] = req[v]
        /\ Len(orders) = 2

\* C10: when the decrement of a request returned false, the request reports
\* nothing before its compensating delete; once the delete went through the
\* order is gone and the outcome is the ValueError "Failed to update product
\* quantity"; the outcome is never success (a delete that raises ends the request
\* with the system-error ValueError instead).
C10_FailedDecrementCompensates ==
    \A w \in Requests :
        quantity_updated[w] = "false" =>
            \/ pc[w] = "rollback" /\ outcome[w] = Pending
            \/ /\ Done(w)
               /\ outcome[w] = UpdateFailed
               /\ FindOrder(orders, inserted[w]) = None
            \/ /\ Done(w)
               /\ outcome[w] = SystemFailure
               /\ ~NoFault

\* A request lost the race, was rolled back and answered, while the order of
\* the winner stays stored.
C10_Witness ==
    \E w \in Requests :
        /\ RolledBack(w)
        /\ FindOrder(orders, inserted[w]) = None
        /\ orders # <<>>

\* C11: when the compensating delete itself raises after a failed decrement,
\* the failure is not swallowed: the request ends with the system-error outcome
\* and never with success, its order stays stored, and its quantity was not taken
\* from the stock. A terminated request whose decrement returned false ends with
\* the system error exactly when its order is still stored.
C11_FailedRollbackIsSystemError ==
    \A w \in Requests :
        (Done(w) /\ quantity_updated[w] = "false") =>
            /\ outcome[w].status # 201
            /\ outcome[w] \in {SystemFailure, UpdateFailed}
            /\ (FindOrder(orders, inserted[w]) # None) <=> (outcome[w] = SystemFailure)
            /\ outcome[w] = SystemFailure =>
                   /\ outcome[w].exc = "ValueError"
                   /\ IsOrderOf(FindOrder(orders, inserted[w])[1], w)
                   /\ w \notin Decremented(Target(w))
                   /\ Stock(Target(w)) = initial[Target(w)].available_quantity
                                            - SumQuantity(Decremented(Target(w)))

\* The decrement of a request returned false, its compensating delete raised:
\* the request ended with the system error and its order is still stored.
C11_Witness ==
    \E w \in Requests :
        /\ Done(w) /\ quantity_updated[w] = "false"
        /\ outcome[w] = SystemFailure
        /\ faultBudget < MaxFaults
        /\ FindOrder(orders, inserted[w]) # None

\* The request passed the pre-check and terminated without an inserted order:
\* its insert_one raised.
InsertFailed(w) ==
    /\ Done(w)
    /\ product[w] # None
    /\ product[w][1].available_quantity >= req[w].quantity
    /\ inserted[w] = 0

\* C12: a request whose insert_one raised ends with the system-error outcome; no
\* order of it is stored (every stored order is the insert of another request), no
\* decrement was attempted, and the stock is the initial stock less the successful
\* decrements of other requests; when it ran alone both collections are as it
\* found them.
C12_FailedInsertHasNoEffect ==
    \A w \in Requests :
        InsertFailed(w) =>
            /\ outcome[w] = SystemFailure
            /\ quantity_updated[w] = "unset"
            /\ \A i \in 1..Len(orders) :
                   \E v \in Requests \ {w} : inserted[v] = orders[i]._id
            /\ w \notin Decremented(Target(w))
            /\ Stock(Target(w)) = initial[Target(w)].available_quantity
                                     - SumQuantity(Decremented(Target(w)))
            /\ Solo(w) => orders = atStart[w].orders /\ products = atStart[w].products

\* The insert of a request that ran alone raised, after an earlier request had
\* placed an order: that order and the stock it left are untouched.
C12_Witness ==
    \E w \in Requests :
        /\ InsertFailed(w) /\ Solo(w)
        /\ outcome[w] = SystemFailure
        /\ orders # <<>>
        /\ Stock(Target(w)) = product[w][1].available_quantity

\* C13: POST /orders answers 500 whenever create_order ends because a storage
\* call raised (lookup, insert, decrement, rollback delete or re-read), as opposed
\* to 400 for insufficient stock and 404 for an absent product.
C13_StorageFailureAnswers500 ==
    \A w \in Requests :
        Done(w) =>
            /\ outcome[w] = SystemFailure => outcome[w].status = 500
            /\ outcome[w] = InsufficientStock => outcome[w].status = 400
            /\ outcome[w] = NotFound => outcome[w].status = 404

\* C14: the three failure kinds of the order workflow stay distinguishable at the
\* caller: NotFound, InsufficientStock and the system error (lost race or storage
\* fault) are three different error outcomes, and a system error is never
\* reported with the exception type or the status of a business-rule failure.
C14_FailureKindsDistinguishable ==
    /\ NotFound.status # InsufficientStock.status
    /\ \A w \in Requests :
           (Done(w) /\ outcome[w] \in {SystemFailure, UpdateFailed}) =>
               /\ outcome[w].exc \notin {NotFound.exc, InsufficientStock.exc}
               /\ outcome[w].status \notin {NotFound.status, InsufficientStock.status}

\* The body of the request failed the validation of OrderIn: the request
\* terminated without create_order having been called.
Rejected(w) == Done(w) /\ ~Placed(w)

\* C15: a POST /orders whose body is schema-invalid (quantity <= 0, or a
\* product_id that is not a well-formed id) is answered with status 400 and
\* reaches neither store: no product is read, no order is inserted, no decrement
\* is attempted, and when it ran alone both collections are as it found them.
C15_InvalidOrderAnswers400 ==
    \A w \in Requests :
        Rejected(w) =>
            /\ outcome[w].status = 400
            /\ product[w] = None
            /\ inserted[w] = 0
            /\ quantity_updated[w] = "unset"
            /\ Solo(w) => orders = atStart[w].orders /\ products = atStart[w].products

\* C16: a POST /products whose body violates a constraint (empty or blank
\* name, name longer than 200 characters, price <= 0, empty size list, an empty
\* or blank size entry, negative available_quantity) is answered with status 400
\* and persists no product: every stored product is a seeded one or the insert
\* of another request, and when it ran alone the collection is as it found it.
C16_InvalidProductAnswers400 ==
    \A w \in Requests :
        Rejected(w) =>
            /\ outcome[w].status = 400
            /\ inserted[w] = 0
            /\ DOMAIN products =
                   DOMAIN initial \cup
                       {inserted[v] : v \in {u \in Requests \ {w} : inserted[u] # 0}}
            /\ Solo(w) => products = atStart[w].products

\* C17: for every valid product creation, the stored record and the returned
\* record have the name as sent with the blanks around it removed, every size as
\* sent stripped and lower-cased, the price and available_quantity as sent, and
\* an id that no product had when the request arrived and no other request
\* received; the products stored before keep their documents.
C17_CreatedProductIsNormalisedInput ==
    \A w \in Requests :
        inserted[w] # 0 =>
            LET raw == atStart[w].raw
                doc == products[inserted[w]]
                Normalised(r) ==
                    /\ r.name = Strip(raw.name)
                    /\ r.name \in {"Widget", "N200"}
                    /\ Len(r.size) = Len(raw.size)
                    /\ \A i \in 1..Len(raw.size) :
                           /\ r.size[i] = Lower(Strip(raw.size[i]))
                           /\ r.size[i] = "large"
                    /\ r.price = raw.price
                    /\ r.available_quantity = raw.available_quantity
            IN  /\ inserted[w] \in DOMAIN products
                /\ Normalised(doc)
                /\ inserted[w] \notin DOMAIN atStart[w].products
                /\ \A v \in Requests \ {w} : inserted[v] # inserted[w]
                /\ \A oid \in DOMAIN atStart[w].products :
                       products[oid] = atStart[w].products[oid]
                /\ (Done(w) /\ outcome[w].status # 500) =>
                       /\ outcome[w].status = 201
                       /\ Normalised(outcome[w].body[1])
                       /\ outcome[w].body[1].id = ObjectIdStr(inserted[w])

\* Two creations both answered 201, one of them sent with blanks around the
\* name and with a capitalised size and a size followed by a blank.
C17_Witness ==
    \E w, v \in Requests :
        /\ w # v /\ Succeeded(w) /\ Succeeded(v)
        /\ atStart[w].raw.name = " Widget "
        /\ atStart[w].raw.size = <<"Large", "large ">>
        /\ outcome[w].body[1].name = "Widget"
        /\ outcome[w].body[1].id # outcome[v].body[1].id

\* C18 as stated: a stored product's size is a set: when the sizes sent contain
\* duplicates after normalisation (e.g. "Large" and "large "), the stored size
\* collection contains each normalised value once.
C18_StoredSizesAreDistinct ==
    \A w \in Requests :
        inserted[w] # 0 =>
            LET size == products[inserted[w]].size
            IN  \A i, j \in 1..Len(size) : i # j => size[i] # size[j]

\* C18: a stored product's size is the list of the normalised sizes sent, in
\* the order sent: it has one entry for every entry sent, so two entries that
\* coincide after normalisation (e.g. "Large" and "large ") are both stored;
\* the values stored are exactly the normalised values sent.
C18_StoredSizesKeepDuplicates ==
    \A w \in Requests :
        inserted[w] # 0 =>
            LET sent == atStart[w].raw.size
                size == products[inserted[w]].size
            IN  /\ Len(size) = Len(sent)
                /\ {size[i] : i \in 1..Len(size)}
                       = {Lower(Strip(sent[i])) : i \in 1..Len(sent)}
                /\ \A i, j \in 1..Len(sent) :
                       (Lower(Strip(sent[i])) = Lower(Strip(sent[j])))
                           <=> (size[i] = size[j])

\* A product sent with the sizes "Large" and "large " is stored with the
\* size "large" twice.
C18_Witness ==
    \E w \in Requests :
        /\ inserted[w] # 0
        /\ atStart[w].raw.size = <<"Large", "large ">>
        /\ products[inserted[w]].size = <<"large", "large">>

\* result is a page of the orders of user_id stored in ords, newest first:
\* every entry is a stored order of that user, no order twice, created_at never
\* increases, the length is what is left after offset up to limit, and the entry
\* at position k has at most offset + k - 1 orders of the user strictly newer
\* than it and at least offset + k that are not older.
IsPageOfUserOrders(result, ords, user_id, limit, offset) ==
    LET mine == OrdersOf(ords, user_id)
        n == Len(mine)
        left == IF n > offset THEN n - offset ELSE 0
        Newer(t) == Cardinality({i \in 1..n : mine[i].created_at > t})
        NotOlder(t) == Cardinality({i \in 1..n : mine[i].created_at >= t})
    IN  /\ Len(result) = (IF left < limit THEN left ELSE limit)
        /\ Len(result) <= limit
        /\ \A k \in 1..Len(result) :
               /\ result[k].user_id = user_id
               /\ \E i \in 1..n : result[k] = OrderOut(mine[i])
               /\ Newer(result[k].created_at) <= offset + k - 1
               /\ NotOlder(result[k].created_at) >= offset + k
        /\ \A k, l \in 1..Len(result) :
               /\ k # l => result[k].id # result[l].id
               /\ k < l => result[k].created_at >= result[l].created_at

\* C19: list_user_orders(user_id, limit, offset) returns the elements at
\* positions [offset, offset+limit) of the stored orders of user_id sorted by
\* created_at descending: no order of another user, at most limit orders, and
\* the page is cut after the ordering.
C19_ListingIsPageOfSortedOrders ==
    [][listing' # listing =>
           LET r == listing'[Len(listing')]
           IN  r.status = 200 =>
                   IsPageOfUserOrders(r.result, orders, r.user_id, r.limit, r.offset)]_vars

\* A listing with offset 1 and limit 1 returned the older of the two orders of
\* a user.
C19_Witness ==
    \E n \in 1..Len(listing) :
        LET r == listing[n]
        IN  /\ r.status = 200 /\ r.offset = 1 /\ r.limit = 1
            /\ Len(r.result) = 1
            /\ \E i \in 1..Len(orders) :
                   /\ orders[i].user_id = r.user_id
                   /\ orders[i].created_at > r.result[1].created_at

\* result is the page [offset, offset+limit) of the products of store that
\* match the filters, by ascending id: its length is what is left after offset
\* up to limit, and its entry at position k is the matching product that has
\* exactly offset + k - 1 matching products of smaller id.
IsPageOfProducts(result, store, name, size, limit, offset) ==
    LET found == {oid \in DOMAIN store : Matches(store[oid], name, size)}
        n == Cardinality(found)
        left == IF n > offset THEN n - offset ELSE 0
    IN  /\ Len(result) = (IF left < limit THEN left ELSE limit)
        /\ \A k \in 1..Len(result) :
               \E oid \in found :
                   /\ result[k] = ProductOut(oid, store[oid])
                   /\ Cardinality({o \in found : o < oid}) = offset + k - 1

\* The pages of size limit at offsets 0, limit, 2*limit, ... over store hold
\* every matching product exactly once.
PagesEnumerateOnce(store, name, size, limit) ==
    LET found == {oid \in DOMAIN store : Matches(store[oid], name, size)}
        last == Cardinality(found) \div limit
        Page(p) == ListProducts(store, name, size, limit, p * limit)
        Places(oid) == {<<p, k>> \in (0..last) \X (1..limit) :
                           /\ k <= Len(Page(p))
                           /\ Page(p)[k].id = ObjectIdStr(oid)}
    IN  /\ \A oid \in found : Cardinality(Places(oid)) = 1
        /\ \A p \in 0..last : \A k \in 1..Len(Page(p)) :
               \E oid \in found : Page(p)[k] = ProductOut(oid, store[oid])

\* C20: list_products(name_filter, size_filter, limit, offset) returns the
\* elements at positions [offset, offset+limit) of the matching products sorted by
\* id ascending, so that consecutive pages (offset 0, limit, 2*limit, ...) over
\* an unchanged store are disjoint and together hold every matching product
\* once; skip and limit being called before sort does not change this.
C20_ProductPageOfSortedMatches ==
    \A n \in 1..Len(listing) :
        LET r == listing[n]
        IN  r.status = 200 =>
                /\ IsPageOfProducts(r.result, r.store, r.name, r.size,
                                    r.limit, r.offset)
                /\ PagesEnumerateOnce(r.store, r.name, r.size, r.limit)

\* The second page of size 1 of a size filter that one seeded product and two
\* created products satisfy: it holds the first created product.
C20_Witness ==
    \E n \in 1..Len(listing) :
        LET r == listing[n]
        IN  /\ r.status = 200 /\ r.size = "Large" /\ r.name = ""
            /\ r.limit = 1 /\ r.offset = 1
            /\ Cardinality(DOMAIN r.store) = 4
            /\ Len(r.result) = 1
            /\ r.result[1].id = ObjectIdStr(3)

\* The ids of the products of store that hold the size value.
HoldingSize(store, value) ==
    {oid \in DOMAIN store :
        \E i \in 1..Len(store[oid].size) : store[oid].size[i] = value}

\* The ids a listing response returned.
ListedProductIds(r) == {r.result[k].id : k \in 1..Len(r.result)}

\* C21: a product listing with a size filter returns only products whose
\* stored size holds the filter in lower case, and every such product when the
\* page is large enough to hold them all (no name filter); stored sizes are in
\* lower case, so a product created as "Large" is found by the query "Large".
C21_SizeFilterIgnoresCase ==
    \A n \in 1..Len(listing) :
        LET r == listing[n]
            wanted == IF r.size = "Large" THEN "large" ELSE r.size
            holding == HoldingSize(r.store, wanted)
        IN  (r.status = 200 /\ r.size # "") =>
                /\ \A oid \in DOMAIN r.store :
                       \A i \in 1..Len(r.store[oid].size) :
                           r.store[oid].size[i] \in {"large", "small"}
                /\ ListedProductIds(r) \subseteq {ObjectIdStr(oid) : oid \in holding}
                /\ (r.name = "" /\ r.offset = 0 /\ Cardinality(holding) <= r.limit)
                       => ListedProductIds(r) = {ObjectIdStr(oid) : oid \in holding}

\* The query size=Large returned a seeded product of size "large" together
\* with a product a request created with the size "Large".
C21_Witness ==
    \E n \in 1..Len(listing), w \in Requests :
        LET r == listing[n]
        IN  /\ r.status = 200 /\ r.size = "Large" /\ r.name = ""
            /\ Succeeded(w)
            /\ atStart[w].raw.size = <<"Large">>
            /\ ListedProductIds(r) = {ObjectIdStr(2), ObjectIdStr(inserted[w])}

\* C22: get_product_by_id returns None, and raises nothing, for an id string
\* that is not well-formed; when its find_one does not raise it returns None for
\* a well-formed id that names no stored product and the stored document
\* otherwise ("0a" and "0A" name the same product); it changes neither
\* collection.
C22_LookupReturnsProductOrNone ==
    [][listing' # listing =>
           LET r == listing'[Len(listing')]
           IN  /\ r.product_id \in {" 0a", "zz"} =>
                      ~r.raised /\ r.result = None
               /\ (r.product_id = "0c" /\ ~r.raised) => r.result = None
               /\ (r.product_id \in {"0a", "0A"} /\ ~r.raised) =>
                      r.result = Some(products[1])
               /\ (r.product_id = "0b" /\ ~r.raised) =>
                      r.result = Some(products[2])
               /\ products' = products
               /\ orders' = orders]_vars

\* After a decrement of the first product a lookup by the other spelling of
\* its id returned the decremented document.
C22_Witness ==
    /\ decCall # None
    /\ decCall[1].result = "true"
    /\ Len(listing) = 1
    /\ listing[1].product_id = "0A"
    /\ listing[1].result = Some(products[1])
    /\ products[1] # initial[1]

\* C23: every create_order answered 201 returns an order with the user_id,
\* product_id and quantity of the OrderIn it received, the id the insert gave
\* and a created_at; the stored order is that record, and a listing for that
\* user run after the answer returns that record: every entry with its id equals
\* it, and a first page that is not full holds it.
C23_ReturnedOrderIsStoredOrder ==
    \A w \in Requests :
        Succeeded(w) =>
            LET out == outcome[w].body[1]
                stored == FindOrder(orders, inserted[w])
            IN  /\ out.user_id = req[w].user_id
                /\ out.product_id = req[w].product_id
                /\ out.quantity = req[w].quantity
                /\ out.id = ObjectIdStr(inserted[w])
                /\ out.created_at \in 0..MaxClock
                /\ stored # None
                /\ stored[1] = [_id |-> inserted[w], user_id |-> out.user_id,
                                product_id |-> out.product_id,
                                quantity |-> out.quantity,
                                created_at |-> out.created_at]
                /\ \A n \in 1..Len(listing) :
                       LET r == listing[n]
                       IN  (r.status = 200 /\ w \in r.done) =>
                               /\ \A k \in 1..Len(r.result) :
                                      r.result[k].id = out.id => r.result[k] = out
                               /\ (/\ r.user_id = out.user_id /\ r.offset = 0
                                   /\ Len(r.result) < r.limit)
                                      => \E k \in 1..Len(r.result) : r.result[k] = out

\* An order created at clock 0 and answered when the clock showed 1, then
\* returned by a listing for its user.
C23_Witness ==
    \E w \in Requests, n \in 1..Len(listing) :
        /\ Succeeded(w)
        /\ clock = 1
        /\ outcome[w].body[1].created_at = 0
        /\ w \in listing[n].done
        /\ listing[n].status = 200
        /\ \E k \in 1..Len(listing[n].result) :
               listing[n].result[k] = outcome[w].body[1]

\* C24: a step changes the available_quantity of a product only when it is the
\* decrement of a request for that product that returns true, and then by the
\* quantity of that request; the product listing, the product lookup, the order
\* listing, the insert of an order, the rollback delete and every path of
\* create_order that fails before or at the decrement leave every
\* available_quantity as it was, and a decrement leaves every other product's.
C24_QuantityChangedOnlyByDecrement ==
    [][\A oid \in DOMAIN products :
           products'[oid].available_quantity # products[oid].available_quantity =>
               \E w \in Requests :
                   /\ pc[w] = "decrement"
                   /\ pc'[w] = "reread"
                   /\ quantity_updated'[w] = "true"
                   /\ Target(w) = oid
                   /\ products'[oid].available_quantity =
                          products[oid].available_quantity - req[w].quantity
                   /\ \A other \in DOMAIN products \ {oid} :
                          products'[other] = products[other]]_vars

\* The first product was decremented and the second was not, while a request
\* was rolled back and a read was answered.
C24_Witness ==
    /\ Stock(1) < initial[1].available_quantity
    /\ products[2] = initial[2]
    /\ \E w \in Requests : RolledBack(w)
    /\ Len(listing) = 1

\* C25: a step removes a stored order only when it is the rollback of the
\* request that inserted it, and it removes that order alone; an order that stays
\* stored keeps all its fields, created_at included; the order of a request
\* answered 201 is stored after every later step, unchanged.
C25_OrderDeletedOnlyByOwnRollback ==
    [][/\ \A i \in 1..Len(orders) :
              LET id == orders[i]._id
              IN  IF FindOrder(orders', id) = None
                  THEN /\ Len(orders') = Len(orders) - 1
                       /\ \E w \in Requests :
                              /\ inserted[w] = id
                              /\ pc[w] = "rollback"
                              /\ pc'[w] = "done"
                  ELSE FindOrder(orders', id) = Some(orders[i])
       /\ \A w \in Requests :
              Succeeded(w) =>
                  /\ FindOrder(orders, inserted[w]) # None
                  /\ FindOrder(orders', inserted[w]) = FindOrder(orders, inserted[w])
      ]_vars

\* The request that inserted first was answered 201 and its order is stored;
\* the request that inserted second was rolled back and its order is gone.
C25_Witness ==
    \E w, v \in Requests :
        /\ RolledBack(w) /\ Succeeded(v)
        /\ inserted[v] < inserted[w]
        /\ FindOrder(orders, inserted[w]) = None
        /\ FindOrder(orders, inserted[v]) # None
        /\ Len(orders) = 1

\* The states of the workflow in their order: a step never moves a request
\* to a state of the same or a lower rank.
Rank(position) ==
    CASE position = "idle" -> 0
      [] position = "lookup" -> 1
      [] position = "check" -> 2
      [] position = "insert" -> 3
      [] position = "decrement" -> 4
      [] position \in {"rollback", "reread"} -> 5
      [] position = "done" -> 6

\* One step of request w keeps the order of the workflow.
InOrder(w) ==
    /\ pc'[w] # pc[w] => Rank(pc'[w]) > Rank(pc[w])
    /\ (pc'[w] = "insert" /\ pc[w] # "insert") =>
           /\ pc[w] = "check"
           /\ product[w] # None
           /\ product[w][1].available_quantity >= req[w].quantity
    /\ inserted'[w] # inserted[w] =>
           /\ pc[w] = "insert" /\ pc'[w] = "decrement"
           /\ inserted[w] = 0
           /\ orders' = Append(orders, orders'[Len(orders')])
           /\ orders'[Len(orders')]._id = inserted'[w]
    /\ (pc'[w] = "decrement" /\ pc[w] # "decrement") => inserted'[w] # inserted[w]
    /\ quantity_updated'[w] # quantity_updated[w] =>
           /\ pc[w] = "decrement"
           /\ quantity_updated[w] = "unset"
           /\ inserted[w] # 0
           /\ pc'[w] = (IF quantity_updated'[w] = "true" THEN "reread" ELSE "rollback")
    /\ (pc[w] = "rollback" /\ pc'[w] # "rollback") => pc'[w] = "done"
    /\ (pc[w] = "reread" /\ pc'[w] # "reread") => pc'[w] = "done"

\* C26: every create_order invocation goes through lookup, pre-check, insert,
\* decrement and then re-read (decrement succeeded) or rollback, in that order,
\* leaving the sequence only to terminate: the insert comes only after a lookup
\* and a pre-check that passed, the decrement only after the insert succeeded,
\* no step is taken twice (one insert, one decrement attempt, one compensating
\* delete at most), every invocation terminates, and it ends in one of success,
\* NotFound, InsufficientStock or a system error.
C26_WorkflowOrderAndTermination ==
    /\ [][\A w \in Requests : InOrder(w)]_vars
    /\ [](\A w \in Requests :
              (Done(w) /\ Placed(w)) =>
                  \/ outcome[w].status = 201 /\ quantity_updated[w] = "true"
                  \/ outcome[w] \in {NotFound, InsufficientStock, SystemFailure,
                                      UpdateFailed})
    /\ \A w \in 1..NumWorkers : (pc[w] # "idle") ~> Done(w)

\* Both ends of the workflow: one request answered 201 after its re-read, one
\* rolled back.
C26_Witness ==
    \E w, v \in Requests :
        /\ Succeeded(w) /\ quantity_updated[w] = "true"
        /\ RolledBack(v)
        /\ inserted[w] # 0 /\ inserted[v] # 0
        /\ product[w] # None /\ product[v] # None

\* The request found its product with enough stock: it passed the pre-check.
PassedPreCheck(w) ==
    /\ product[w] # None
    /\ product[w][1].available_quantity >= req[w].quantity
    /\ pc[w] \notin {"idle", "lookup", "check"}

\* Two requests for one product passed the pre-check against the same stock
\* value, which is enough for either but not for both.
RacedPastPreCheck(w, v) ==
    /\ w # v
    /\ PassedPreCheck(w) /\ PassedPreCheck(v)
    /\ Target(w) = Target(v)
    /\ product[w][1].available_quantity = product[v][1].available_quantity
    /\ req[w].quantity + req[v].quantity > product[w][1].available_quantity

\* C27: the pre-check does not prevent the race: two requests can both pass
\* it against the same stock value that is enough for only one of them. Whenever
\* they did, no storage call of theirs raised and no third request took stock of
\* that product, then once both have terminated exactly one decrement succeeded
\* and that request is answered 201 with its order stored; the other ends with
\* the ValueError "Failed to update product quantity" (not InsufficientStock)
\* and its order is deleted.
C27_RaceEndsInOneRollback ==
    \A w, v \in Requests :
        (/\ RacedPastPreCheck(w, v)
         /\ Done(w) /\ Done(v)
         /\ outcome[w] # SystemFailure /\ outcome[v] # SystemFailure
         /\ Decremented(Target(w)) \subseteq {w, v})
        => \E win \in {w, v} :
               LET lose == CHOOSE x \in {w, v} : x # win
               IN  /\ quantity_updated[win] = "true"
                   /\ Succeeded(win)
                   /\ FindOrder(orders, inserted[win]) # None
                   /\ quantity_updated[lose] = "false"
                   /\ outcome[lose] = UpdateFailed
                   /\ outcome[lose] # InsufficientStock
                   /\ inserted[lose] # 0
                   /\ FindOrder(orders, inserted[lose]) = None
                   /\ Stock(Target(w)) = product[w][1].available_quantity
                                            - req[win].quantity

\* Two requests read the same stock of 2, one asked for 2 and one for 1: both
\* passed the pre-check and inserted; the one asking for 1 won and the other was
\* rolled back.
C27_Witness ==
    \E w, v \in Requests :
        /\ RacedPastPreCheck(w, v)
        /\ product[w][1].available_quantity = 2
        /\ req[w].quantity = 1 /\ req[v].quantity = 2
        /\ Succeeded(w) /\ RolledBack(v)
        /\ Stock(Target(w)) = 1

\* The quantities of the stored orders for product oid, added up.
RECURSIVE OrderedQuantity(_, _)
OrderedQuantity(ords, oid) ==
    IF ords = <<>> THEN 0
    ELSE (IF ObjectId(Head(ords).product_id) = oid THEN Head(ords).quantity ELSE 0)
         + OrderedQuantity(Tail(ords), oid)

\* No request is between its arrival and its response.
Quiescent == \A w \in Requests : pc[w] \in {"idle", "done"}

\* C28: stock conservation at quiescence: when no create_order is in flight and
\* no storage call has raised, the initial available_quantity of every product
\* is its current available_quantity plus the quantities of the stored orders
\* for it, and the stored orders are exactly the inserts of the requests whose
\* decrement succeeded.
C28_StockConservedAtQuiescence ==
    (Quiescent /\ NoFault) =>
        /\ \A oid \in DOMAIN products :
               initial[oid].available_quantity
                   = Stock(oid) + OrderedQuantity(orders, oid)
        /\ {orders[i]._id : i \in 1..Len(orders)}
               = {inserted[w] : w \in {v \in Requests : quantity_updated[v] = "true"}}

\* At quiescence with no fault, two orders are stored that together took the
\* whole stock of the first product.
C28_Witness ==
    /\ Quiescent /\ NoFault
    /\ Len(orders) = 2
    /\ OrderedQuantity(orders, 1) = initial[1].available_quantity
    /\ Stock(1) = 0

\* C29: no phantom order is observable: an order that is inserted and later
\* removed by the rollback of its request appears in no listing, however the
\* listing interleaves with the create_order invocations.
C29_NoPhantomOrderListed ==
    \A w \in Requests :
        RolledBack(w) =>
            \A n \in 1..Len(listing) :
                ObjectIdStr(inserted[w]) \notin ListedIds(listing[n])

\* C30: a failed create_order has no net effect: whenever an invocation ends
\* with an error outcome, a storage fault in the re-read after a successful
\* decrement included, it has not reduced the available_quantity of the product
\* and no order it inserted is stored; the one exception is a compensating
\* delete that raised.
C30_FailedOrderHasNoEffect ==
    \A w \in Requests :
        (/\ Done(w) /\ Placed(w)
         /\ outcome[w].status # 201
         /\ ~(quantity_updated[w] = "false" /\ outcome[w] = SystemFailure))
        => /\ quantity_updated[w] # "true"
           /\ FindOrder(orders, inserted[w]) = None

====
